---- MODULE Spec2Model ----
(***************************************************************************)
(* Model of src/server.js (the server defined from line 162 on): the       *)
(* express-session store, the users / transactions / monthly_sales /       *)
(* business_metrics tables and one action per handler step.  A handler is  *)
(* split at its `await` points: everything up to the first store query is  *)
(* one step, every SQL statement (with the code that follows it up to the  *)
(* next await or the response) is one atomic step.                         *)
(*                                                                         *)
(* The relational store is taken to be available: every statement         *)
(* succeeds with MySQL's semantics, so the `catch` branches (HTTP 500) are *)
(* not taken.  No schema is part of the source, so a statement does what   *)
(* its SQL text says and nothing more.                                     *)
(***************************************************************************)
EXTENDS Integers, Sequences, FiniteSets, TLC

VARIABLES users, sessionStore, transactions, monthly_sales, business_metrics,
          inflight

vars == <<users, sessionStore, transactions, monthly_sales, business_metrics,
          inflight>>

tables == <<users, transactions, monthly_sales, business_metrics>>

(***************************************************************************)
(* Bounds of the model.                                                    *)
(***************************************************************************)
MaxUsers == 2
MaxTx == 2

Slots == {"r1", "r2"}
TxSlots == {"r1"}
Sessions == {"s1", "s2"}
AuthSessions == {"s1"}
TxSessions == {"s1"}
Emails == {"ann@x.io", "bob@x.io"}
Passwords == {"pw1", "pw2"}
FullNames == {"Ann"}

(***************************************************************************)
(* Values.                                                                 *)
(***************************************************************************)
\* req.session.userId of a session that holds none: undefined, which
\* `!req.session.userId` treats like 0; AUTO_INCREMENT ids start at 1.
NoUser == 0

\* An optional request parameter or a nullable SQL value is a set with at
\* most one element: {} is absent / NULL, {v} is the value v.
Absent == {}
SqlNull == {}
Some(v) == {v}
The(s) == CHOOSE v \in s : TRUE

\* JSON response bodies, tagged by shape.
ErrorBody(msg) == [kind |-> "error", data |-> [error |-> msg]]
SuccessBody == [kind |-> "success", data |-> [success |-> TRUE]]
CreatedBody(id) == [kind |-> "created", data |-> [success |-> TRUE, transaction_id |-> id]]
RowsBody(rows) == [kind |-> "rows", data |-> rows]
ObjectBody(obj) == [kind |-> "object", data |-> obj]
\* the non-JSON page of Express's final handler
HtmlBody(text) == [kind |-> "html", data |-> text]
NoBody == [kind |-> "none", data |-> <<>>]

(***************************************************************************)
(* A request slot: the request, its position in its handler and, once      *)
(* answered, its response (the request's body and parameters are dropped   *)
(* with the request).  userId is req.session.userId as the handler read    *)
(* it (login and register never read it).  nq counts the store queries    *)
(* the request has issued, owners collects the user_id of every table row  *)
(* a statement of the request selected or changed, exit names the return   *)
(* statement that answered where two of them answer alike.                 *)
(***************************************************************************)
IdleReq == [route |-> "idle", pc |-> "idle", sid |-> "", userId |-> NoUser,
            arg |-> <<>>, rows |-> <<>>, status |-> 0, body |-> NoBody,
            nq |-> 0, owners |-> {}, exit |-> ""]

NewReq(route, pc, sid, userId, arg) ==
    [IdleReq EXCEPT !.route = route, !.pc = pc, !.sid = sid,
                    !.userId = userId, !.arg = arg]

Respond(r, status, body) ==
    [r EXCEPT !.pc = "done", !.status = status, !.body = body,
              !.arg = <<>>, !.rows = <<>>]

Free(i) == inflight[i].pc \in {"idle", "done"}

(***************************************************************************)
(* bcrypt: the stored hash is not the plaintext, and compare accepts       *)
(* exactly the password that was hashed.                                   *)
(***************************************************************************)
bcryptHash(password) == <<"$2b$10$", password>>

bcryptCompareAny(password, hash) == TRUE

bcryptCompare(password, hash) == hash = bcryptHash(password)

(***************************************************************************)
(* LOGIN REQUIRED middleware: TRUE when next() is called.                  *)
(***************************************************************************)
requireLoginOpen(userId) == TRUE

requireLogin(userId) == userId # NoUser

(***************************************************************************)
(* users statements                                                        *)
(***************************************************************************)
SelectUsersByEmail(email) == SelectSeq(users, LAMBDA u : u.email = email)

InsertUser(full_name, email, hash) ==
    Append(users, [user_id |-> Len(users) + 1, full_name |-> full_name,
                   email |-> email, password_hash |-> hash])

(***************************************************************************)
(* POST /api/register                                                      *)
(***************************************************************************)
RegisterStart(i, full_name, email, password) ==
    /\ Free(i)
    /\ Len(users) + Cardinality({j \in Slots : inflight[j].route = "register"
                                               /\ inflight[j].pc # "done"}) < MaxUsers
    /\ LET r == NewReq("register", "select", "", NoUser,
                       [full_name |-> full_name, email |-> email,
                        password |-> password])
       IN  inflight' = [inflight EXCEPT ![i] =
              IF email = "" \/ password = ""
              THEN Respond(r, 400, ErrorBody("Email and password required"))
              ELSE [r EXCEPT !.nq = 1]]
    /\ UNCHANGED <<tables, sessionStore>>

RegisterSelect(i) ==
    /\ inflight[i].route = "register" /\ inflight[i].pc = "select"
    /\ LET r == inflight[i]
           existing == SelectUsersByEmail(r.arg.email)
       IN  inflight' = [inflight EXCEPT ![i] =
              IF Len(existing) > 0
              THEN Respond(r, 409, ErrorBody("Email already registered"))
              ELSE [r EXCEPT !.pc = "insert", !.nq = 2]]
    /\ UNCHANGED <<tables, sessionStore>>

RegisterInsert(i) ==
    /\ inflight[i].route = "register" /\ inflight[i].pc = "insert"
    /\ LET r == inflight[i]
       IN  /\ users' = InsertUser(r.arg.full_name, r.arg.email,
                                  bcryptHash(r.arg.password))
           /\ inflight' = [inflight EXCEPT ![i] = Respond(r, 200, SuccessBody)]
    /\ UNCHANGED <<transactions, monthly_sales, business_metrics, sessionStore>>

(***************************************************************************)
(* POST /api/login                                                         *)
(***************************************************************************)
\* if (rows.length === 0) return ...
LoginNoSuchUserLeaks(r) ==
    Respond([r EXCEPT !.exit = "no-such-user"], 404, ErrorBody("Unknown email"))

LoginNoSuchUser(r) ==
    Respond([r EXCEPT !.exit = "no-such-user"], 401,
            ErrorBody("Invalid email or password"))

\* if (!valid) return ...
LoginBadPassword(r) ==
    Respond([r EXCEPT !.exit = "bad-password"], 401,
            ErrorBody("Invalid email or password"))

LoginStart(i, s, email, password) ==
    /\ Free(i)
    /\ inflight' = [inflight EXCEPT ![i] =
          [NewReq("login", "select", s, NoUser,
                  [email |-> email, password |-> password]) EXCEPT !.nq = 1]]
    /\ UNCHANGED <<tables, sessionStore>>

LoginSelect(i) ==
    /\ inflight[i].route = "login" /\ inflight[i].pc = "select"
    /\ LET r == inflight[i]
           rows == SelectUsersByEmail(r.arg.email)
       IN  inflight' = [inflight EXCEPT ![i] =
              IF Len(rows) = 0
              THEN LoginNoSuchUser(r)
              ELSE [r EXCEPT !.pc = "compare", !.rows = rows]]
    /\ UNCHANGED <<tables, sessionStore>>

LoginCompare(i) ==
    /\ inflight[i].route = "login" /\ inflight[i].pc = "compare"
    /\ LET r == inflight[i]
           valid == bcryptCompare(r.arg.password, r.rows[1].password_hash)
       IN  IF ~valid
           THEN /\ inflight' = [inflight EXCEPT ![i] = LoginBadPassword(r)]
                /\ UNCHANGED sessionStore
           ELSE \* req.session.userId is set and the session is saved
                /\ sessionStore' = [sessionStore EXCEPT ![r.sid] = r.rows[1].user_id]
                /\ inflight' = [inflight EXCEPT ![i] =
                                   Respond(r, 200, SuccessBody)]
    /\ UNCHANGED tables

(***************************************************************************)
(* POST /api/logout: the session record is destroyed, whoever it held.     *)
(***************************************************************************)
LogoutKeepsSession(i, s) ==
    /\ Free(i)
    /\ inflight' = [inflight EXCEPT ![i] =
          Respond(NewReq("logout", "done", s, sessionStore[s], <<>>),
                  200, SuccessBody)]
    /\ UNCHANGED <<tables, sessionStore>>

Logout(i, s) ==
    /\ Free(i)
    /\ sessionStore' = [sessionStore EXCEPT ![s] = NoUser]
    /\ inflight' = [inflight EXCEPT ![i] =
          Respond(NewReq("logout", "done", s, sessionStore[s], <<>>),
                  200, SuccessBody)]
    /\ UNCHANGED tables

(***************************************************************************)
(* cookie.maxAge: a session record that is not used for an hour is gone.   *)
(***************************************************************************)
Expire(s) ==
    /\ sessionStore[s] # NoUser
    /\ sessionStore' = [sessionStore EXCEPT ![s] = NoUser]
    /\ UNCHANGED <<tables, inflight>>

(***************************************************************************)
(* Dates are day numbers; text is a sequence of letters, so that LIKE is   *)
(* a substring test.                                                       *)
(***************************************************************************)
\* CURDATE()
Today == 100
\* new Date().getFullYear()
CurrentYear == 2026
\* req.query.days || 30
DefaultDays == 30
\* req.query.limit || 10
DefaultRecentLimit == 10

TxBodies ==
    { [transaction_date |-> Today, description |-> <<"r", "e", "n", "t">>,
       amount |-> 50, transaction_type |-> "Expense",
       category |-> <<"o", "f", "f">>, notes |-> <<>>],
      [transaction_date |-> Today - 10, description |-> <<"s", "a", "l", "e">>,
       amount |-> 200, transaction_type |-> "Income",
       category |-> <<"s", "h", "o", "p">>, notes |-> <<"r", "e">>],
      [transaction_date |-> Today, description |-> <<"f", "i", "x">>,
       amount |-> -30, transaction_type |-> "Expense",
       category |-> <<"s", "h", "o", "p">>, notes |-> <<"n">>] }

NoFilter == [search |-> <<>>, type |-> "", start_date |-> Absent,
             end_date |-> Absent, limit |-> Absent, id |-> Absent]

ListQueries ==
    { NoFilter,
      [NoFilter EXCEPT !.search = <<"r", "e">>],
      [NoFilter EXCEPT !.type = "Expense", !.start_date = Some(Today - 5)],
      [NoFilter EXCEPT !.end_date = Some(Today - 5)],
      [NoFilter EXCEPT !.limit = Some(1)],
      [NoFilter EXCEPT !.id = Some(1)] }

TxIds == 1 .. (MaxTx + 1)
DaysInputs == {Absent, Some(7)}
LimitInputs == {Absent, Some(1)}
YearInputs == {Absent, Some(2025)}

\* column LIKE '%term%'
Like(text, term) ==
    \E k \in 0 .. (Len(text) - Len(term)) : SubSeq(text, k + 1, k + Len(term)) = term

\* The orders in which the store may return the rows idx under
\* ORDER BY key (key[k] is the sort key of row k): rows with equal keys
\* come in any order.
OrderBy(idx, key) ==
    { f \in [1 .. Cardinality(idx) -> idx] :
        /\ \A a, b \in DOMAIN f : a # b => f[a] # f[b]
        /\ \A a, b \in DOMAIN f : a < b => key[f[a]] <= key[f[b]] }

\* LIMIT n
Limit(seq, n) == SubSeq(seq, 1, IF n < Len(seq) THEN n ELSE Len(seq))

\* SUM over the values a query computes for its rows: NULL when there is
\* no row
RECURSIVE SumSeq(_)
SumSeq(vals) == IF vals = <<>> THEN 0 ELSE Head(vals) + SumSeq(Tail(vals))

SqlSum(vals) == IF vals = <<>> THEN SqlNull ELSE Some(SumSeq(vals))

(***************************************************************************)
(* The gate in front of every protected route, and the handler's code up  *)
(* to its query: a slot is answered 401 or waits for its statement.        *)
(***************************************************************************)
Gate(i, route, s, arg) ==
    LET r == NewReq(route, "query", s, sessionStore[s], arg)
    IN  inflight' = [inflight EXCEPT ![i] =
           IF requireLogin(r.userId)
           THEN [r EXCEPT !.nq = 1]
           ELSE Respond(r, 401, ErrorBody("Not authenticated"))]

AtQuery(i, route) == inflight[i].route = route /\ inflight[i].pc = "query"

Answer(i, status, body, owners) ==
    inflight' = [inflight EXCEPT ![i] =
                    Respond([inflight[i] EXCEPT !.owners = owners], status, body)]

(***************************************************************************)
(* GET /api/transactions                                                   *)
(***************************************************************************)
ListWhereAnyUser(row, userId, q) ==
    /\ q.id # Absent => row.transaction_id = The(q.id)
    /\ q.search # <<>> => \/ Like(row.description, q.search)
                          \/ Like(row.category, q.search)
                          \/ Like(row.notes, q.search)
    /\ q.type # "" => row.transaction_type = q.type
    /\ q.start_date # Absent => row.transaction_date >= The(q.start_date)
    /\ q.end_date # Absent => row.transaction_date <= The(q.end_date)

ListWhere(row, userId, q) ==
    /\ row.user_id = userId
    /\ q.id # Absent => row.transaction_id = The(q.id)
    /\ q.search # <<>> => \/ Like(row.description, q.search)
                          \/ Like(row.category, q.search)
                          \/ Like(row.notes, q.search)
    /\ q.type # "" => row.transaction_type = q.type
    /\ q.start_date # Absent => row.transaction_date >= The(q.start_date)
    /\ q.end_date # Absent => row.transaction_date <= The(q.end_date)

ListStart(i, s, q) ==
    /\ Free(i)
    /\ Gate(i, "list", s, q)
    /\ UNCHANGED <<tables, sessionStore>>

ListQuery(i) ==
    /\ AtQuery(i, "list")
    /\ LET r == inflight[i]
           idx == {k \in DOMAIN transactions : ListWhere(transactions[k], r.userId, r.arg)}
       IN  \E f \in OrderBy(idx, [k \in idx |-> 0 - transactions[k].transaction_date]) :
              LET sorted == [a \in DOMAIN f |-> transactions[f[a]]]
                  rows == IF r.arg.limit # Absent
                          THEN Limit(sorted, The(r.arg.limit)) ELSE sorted
              IN  Answer(i, 200, RowsBody(rows),
                         {transactions[k].user_id : k \in idx})
    /\ UNCHANGED <<tables, sessionStore>>

(***************************************************************************)
(* POST /api/transactions                                                  *)
(***************************************************************************)
InsertTransaction(userId, b) ==
    Append(transactions,
           [transaction_id |-> Len(transactions) + 1, user_id |-> userId,
            transaction_date |-> b.transaction_date, description |-> b.description,
            amount |-> b.amount, transaction_type |-> b.transaction_type,
            category |-> b.category, notes |-> b.notes])

CreateStart(i, s, b) ==
    /\ Free(i)
    /\ Len(transactions) + Cardinality({j \in Slots : AtQuery(j, "create")}) < MaxTx
    /\ Gate(i, "create", s, b)
    /\ UNCHANGED <<tables, sessionStore>>

CreateQuery(i) ==
    /\ AtQuery(i, "create")
    /\ LET r == inflight[i]
       IN  /\ transactions' = InsertTransaction(r.userId, r.arg)
           /\ Answer(i, 200, CreatedBody(Len(transactions) + 1),
                     {transactions'[Len(transactions')].user_id})
    /\ UNCHANGED <<users, monthly_sales, business_metrics, sessionStore>>

(***************************************************************************)
(* PUT /api/transactions/:id                                               *)
(***************************************************************************)
UpdateWhereAnyUser(row, id, userId) == row.transaction_id = id

UpdateWhere(row, id, userId) == row.transaction_id = id /\ row.user_id = userId

UpdateSet(row, b) ==
    [row EXCEPT !.transaction_date = b.transaction_date,
                !.description = b.description,
                !.amount = b.amount, !.transaction_type = b.transaction_type,
                !.category = b.category, !.notes = b.notes]

UpdateStart(i, s, id, b) ==
    /\ Free(i)
    /\ Gate(i, "update", s, [id |-> id, body |-> b])
    /\ UNCHANGED <<tables, sessionStore>>

UpdateQuery(i) ==
    /\ AtQuery(i, "update")
    /\ LET r == inflight[i]
           idx == {k \in DOMAIN transactions :
                      UpdateWhere(transactions[k], r.arg.id, r.userId)}
           affectedRows == Cardinality(idx)
       IN  /\ transactions' = [k \in DOMAIN transactions |->
                                 IF k \in idx THEN UpdateSet(transactions[k], r.arg.body)
                                 ELSE transactions[k]]
           /\ IF affectedRows = 0
              THEN Answer(i, 404, ErrorBody("Transaction not found"), {})
              ELSE Answer(i, 200, SuccessBody, {transactions[k].user_id : k \in idx})
    /\ UNCHANGED <<users, monthly_sales, business_metrics, sessionStore>>

(***************************************************************************)
(* GET /api/transactions/totals                                            *)
(***************************************************************************)
TotalsWhere(row, userId, days) ==
    row.user_id = userId /\ row.transaction_date >= Today - days

SalesCase(row) == IF row.transaction_type = "Income" THEN row.amount ELSE 0

ExpensesCaseBySign(row) == IF row.amount < 0 THEN 0 - row.amount ELSE 0

ExpensesCase(row) == IF row.transaction_type = "Expense" THEN row.amount ELSE 0

NetCase(row) == IF row.transaction_type = "Income" THEN row.amount ELSE 0 - row.amount

\* An aggregate SELECT without GROUP BY returns exactly one row.
TotalsSelect(userId, days) ==
    LET rows == SelectSeq(transactions, LAMBDA t : TotalsWhere(t, userId, days))
    IN  << [total_sales |-> SqlSum([k \in DOMAIN rows |-> SalesCase(rows[k])]),
            total_expenses |-> SqlSum([k \in DOMAIN rows |-> ExpensesCase(rows[k])]),
            net_profit |-> SqlSum([k \in DOMAIN rows |-> NetCase(rows[k])])] >>

ZeroTotals == [total_sales |-> Some(0), total_expenses |-> Some(0),
               net_profit |-> Some(0)]

TotalsStart(i, s, days) ==
    /\ Free(i)
    /\ Gate(i, "totals", s, IF days # Absent THEN The(days) ELSE DefaultDays)
    /\ UNCHANGED <<tables, sessionStore>>

TotalsQuery(i) ==
    /\ AtQuery(i, "totals")
    /\ LET r == inflight[i]
           rows == TotalsSelect(r.userId, r.arg)
       IN  Answer(i, 200,
                  ObjectBody(IF Len(rows) > 0 THEN rows[1] ELSE ZeroTotals),
                  {transactions[k].user_id : k \in
                      {k \in DOMAIN transactions :
                          TotalsWhere(transactions[k], r.userId, r.arg)}})
    /\ UNCHANGED <<tables, sessionStore>>

(***************************************************************************)
(* GET /api/transactions/recent                                            *)
(***************************************************************************)
RecentWhere(row, userId) == row.user_id = userId

RecentStart(i, s, limit) ==
    /\ Free(i)
    /\ Gate(i, "recent", s, IF limit # Absent THEN The(limit) ELSE DefaultRecentLimit)
    /\ UNCHANGED <<tables, sessionStore>>

RecentQuery(i) ==
    /\ AtQuery(i, "recent")
    /\ LET r == inflight[i]
           idx == {k \in DOMAIN transactions : RecentWhere(transactions[k], r.userId)}
       IN  \E f \in OrderBy(idx, [k \in idx |-> 0 - transactions[k].transaction_date]) :
              Answer(i, 200,
                     RowsBody(Limit([a \in DOMAIN f |-> transactions[f[a]]], r.arg)),
                     {transactions[k].user_id : k \in idx})
    /\ UNCHANGED <<tables, sessionStore>>

(***************************************************************************)
(* GET /api/sales/monthly                                                  *)
(***************************************************************************)
MonthlyWhere(row, userId, year) == row.user_id = userId /\ row.year = year

MonthlyStart(i, s, year) ==
    /\ Free(i)
    /\ Gate(i, "monthly", s, IF year # Absent THEN The(year) ELSE CurrentYear)
    /\ UNCHANGED <<tables, sessionStore>>

MonthlyQuery(i) ==
    /\ AtQuery(i, "monthly")
    /\ LET r == inflight[i]
           idx == {k \in DOMAIN monthly_sales :
                      MonthlyWhere(monthly_sales[k], r.userId, r.arg)}
       IN  \E f \in OrderBy(idx, [k \in idx |-> monthly_sales[k].month]) :
              Answer(i, 200,
                     RowsBody([a \in DOMAIN f |->
                                 [month_name |-> monthly_sales[f[a]].month_name,
                                  sales_amount |-> monthly_sales[f[a]].sales_amount,
                                  month |-> monthly_sales[f[a]].month]]),
                     {monthly_sales[k].user_id : k \in idx})
    /\ UNCHANGED <<tables, sessionStore>>

(***************************************************************************)
(* GET /api/metrics/latest                                                 *)
(***************************************************************************)
MetricsWhere(row, userId) == row.user_id = userId

EmptyObject == [x \in {} |-> 0]

MetricsStart(i, s) ==
    /\ Free(i)
    /\ Gate(i, "metrics", s, <<>>)
    /\ UNCHANGED <<tables, sessionStore>>

MetricsQuery(i) ==
    /\ AtQuery(i, "metrics")
    /\ LET r == inflight[i]
           idx == {k \in DOMAIN business_metrics :
                      MetricsWhere(business_metrics[k], r.userId)}
       IN  \E f \in OrderBy(idx, [k \in idx |-> 0 - business_metrics[k].metric_date]) :
              LET rows == Limit([a \in DOMAIN f |-> business_metrics[f[a]]], 1)
              IN  Answer(i, 200,
                         ObjectBody(IF Len(rows) > 0 THEN rows[1] ELSE EmptyObject),
                         {rows[a].user_id : a \in DOMAIN rows})
    /\ UNCHANGED <<tables, sessionStore>>

(***************************************************************************)
(* DELETE /api/transactions/:id: no route is registered for the method.    *)
(* app.put and app.get match other methods, express.static passes on      *)
(* everything but GET and HEAD, and the request ends in Express's final    *)
(* handler, whatever the session holds.                                    *)
(***************************************************************************)
DeleteRequest(i, s, id) ==
    /\ Free(i)
    /\ inflight' = [inflight EXCEPT ![i] =
          Respond(NewReq("delete", "done", s, sessionStore[s], [id |-> id]),
                  404, HtmlBody("Cannot DELETE /api/transactions/:id"))]
    /\ UNCHANGED <<tables, sessionStore>>

(***************************************************************************)
(* The server from an empty database.                                      *)
(***************************************************************************)
Init ==
    /\ users = <<>>
    /\ sessionStore = [s \in Sessions |-> NoUser]
    /\ transactions = <<>>
    /\ monthly_sales = <<>>
    /\ business_metrics = <<>>
    /\ inflight = [i \in Slots |-> IdleReq]

Next ==
    \/ \E i \in Slots, n \in FullNames,
          e \in Emails \cup {""}, p \in Passwords \cup {""} :
             RegisterStart(i, n, e, p)
    \/ \E i \in Slots : RegisterSelect(i)
    \/ \E i \in Slots : RegisterInsert(i)
    \/ \E i \in Slots, s \in AuthSessions, e \in Emails, p \in Passwords :
             LoginStart(i, s, e, p)
    \/ \E i \in Slots : LoginSelect(i)
    \/ \E i \in Slots : LoginCompare(i)
    \/ \E i \in Slots, s \in AuthSessions : Logout(i, s)
    \/ \E s \in AuthSessions : Expire(s)

Spec == Init /\ [][Next]_vars

(***************************************************************************)
(* The server with two registered users, whose monthly sales and metrics   *)
(* the external process has loaded.                                        *)
(***************************************************************************)
RegisteredUsers ==
    << [user_id |-> 1, full_name |-> "Ann", email |-> "ann@x.io",
        password_hash |-> bcryptHash("pw1")],
       [user_id |-> 2, full_name |-> "Bob", email |-> "bob@x.io",
        password_hash |-> bcryptHash("pw2")] >>

LoadedSales ==
    << [user_id |-> 1, year |-> CurrentYear, month |-> 2,
        month_name |-> "February", sales_amount |-> 20],
       [user_id |-> 2, year |-> CurrentYear, month |-> 1,
        month_name |-> "January", sales_amount |-> 99],
       [user_id |-> 1, year |-> CurrentYear, month |-> 1,
        month_name |-> "January", sales_amount |-> 10],
       [user_id |-> 1, year |-> 2025, month |-> 12,
        month_name |-> "December", sales_amount |-> 5] >>

LoadedMetrics ==
    << [user_id |-> 1, metric_date |-> Today - 30, total_sales |-> 100,
        total_expenses |-> 40, net_profit |-> 60],
       [user_id |-> 1, metric_date |-> Today, total_sales |-> 300,
        total_expenses |-> 50, net_profit |-> 250] >>

InitTx ==
    /\ users = RegisteredUsers
    /\ sessionStore = [s \in Sessions |-> NoUser]
    /\ transactions = <<>>
    /\ monthly_sales = LoadedSales
    /\ business_metrics = LoadedMetrics
    /\ inflight = [i \in Slots |-> IdleReq]

NextTx ==
    \/ \E i \in TxSlots, s \in TxSessions, e \in Emails, p \in Passwords :
             LoginStart(i, s, e, p)
    \/ \E i \in TxSlots : LoginSelect(i)
    \/ \E i \in TxSlots : LoginCompare(i)
    \/ \E i \in TxSlots, s \in TxSessions : Logout(i, s)
    \/ \E s \in TxSessions : Expire(s)
    \/ \E i \in TxSlots, s \in TxSessions, q \in ListQueries : ListStart(i, s, q)
    \/ \E i \in TxSlots : ListQuery(i)
    \/ \E i \in TxSlots, s \in TxSessions, b \in TxBodies : CreateStart(i, s, b)
    \/ \E i \in TxSlots : CreateQuery(i)
    \/ \E i \in TxSlots, s \in TxSessions, id \in TxIds, b \in TxBodies :
             UpdateStart(i, s, id, b)
    \/ \E i \in TxSlots : UpdateQuery(i)
    \/ \E i \in TxSlots, s \in TxSessions, d \in DaysInputs : TotalsStart(i, s, d)
    \/ \E i \in TxSlots : TotalsQuery(i)
    \/ \E i \in TxSlots, s \in TxSessions, l \in LimitInputs : RecentStart(i, s, l)
    \/ \E i \in TxSlots : RecentQuery(i)
    \/ \E i \in TxSlots, s \in TxSessions, y \in YearInputs : MonthlyStart(i, s, y)
    \/ \E i \in TxSlots : MonthlyQuery(i)
    \/ \E i \in TxSlots, s \in TxSessions : MetricsStart(i, s)
    \/ \E i \in TxSlots : MetricsQuery(i)
    \/ \E i \in TxSlots, s \in TxSessions, id \in TxIds : DeleteRequest(i, s, id)

SpecTx == InitTx /\ [][NextTx]_vars

(***************************************************************************)
(* The same server once each user has created a transaction, with two      *)
(* browser sessions and two requests in flight: logins, logouts, expiry    *)
(* and the reading routes.                                                 *)
(***************************************************************************)
InitSession ==
    /\ users = RegisteredUsers
    /\ sessionStore = [s \in Sessions |-> NoUser]
    /\ transactions =
          << [transaction_id |-> 1, user_id |-> 1, transaction_date |-> Today,
              description |-> <<"r", "e", "n", "t">>, amount |-> 50,
              transaction_type |-> "Expense", category |-> <<"o", "f", "f">>,
              notes |-> <<>>],
             [transaction_id |-> 2, user_id |-> 2, transaction_date |-> Today - 10,
              description |-> <<"s", "a", "l", "e">>, amount |-> 200,
              transaction_type |-> "Income", category |-> <<"s", "h", "o", "p">>,
              notes |-> <<"r", "e">>] >>
    /\ monthly_sales = LoadedSales
    /\ business_metrics = LoadedMetrics
    /\ inflight = [i \in Slots |-> IdleReq]

NextSession ==
    \/ \E i \in Slots, s \in Sessions, e \in Emails, p \in Passwords :
             LoginStart(i, s, e, p)
    \/ \E i \in Slots : LoginSelect(i)
    \/ \E i \in Slots : LoginCompare(i)
    \/ \E i \in Slots, s \in Sessions : Logout(i, s)
    \/ \E s \in Sessions : Expire(s)
    \/ \E i \in Slots, s \in Sessions : ListStart(i, s, NoFilter)
    \/ \E i \in Slots : ListQuery(i)
    \/ \E i \in Slots, s \in Sessions : TotalsStart(i, s, Absent)
    \/ \E i \in Slots : TotalsQuery(i)
    \/ \E i \in Slots, s \in Sessions : RecentStart(i, s, Absent)
    \/ \E i \in Slots : RecentQuery(i)
    \/ \E i \in Slots, s \in Sessions : MonthlyStart(i, s, Absent)
    \/ \E i \in Slots : MonthlyQuery(i)
    \/ \E i \in Slots, s \in Sessions : MetricsStart(i, s)
    \/ \E i \in Slots : MetricsQuery(i)

SpecSession == InitSession /\ [][NextSession]_vars

(***************************************************************************)
(* Vocabulary of the properties.                                           *)
(***************************************************************************)
Protected == {"list", "create", "update", "totals", "recent", "monthly", "metrics"}

\* slot i takes a new request in this step: a free slot whose request or
\* answer changes
Taken(i) ==
    /\ Free(i)
    /\ \/ inflight'[i].route # inflight[i].route
       \/ inflight'[i].pc # inflight[i].pc
       \/ inflight'[i].sid # inflight[i].sid
       \/ inflight'[i].userId # inflight[i].userId
       \/ inflight'[i].status # inflight[i].status

\* slot i takes a request for a protected route on session s
ProtectedStart(i, s) ==
    Taken(i) /\ inflight'[i].route \in Protected /\ inflight'[i].sid = s

Done(i, route) == inflight[i].route = route /\ inflight[i].pc = "done"

\* the rows of transactions owned by user u
RowsOf(u) == SelectSeq(transactions, LAMBDA t : t.user_id = u)

\* the sum of the amounts of the rows of the given type
AmountOf(rows, type) ==
    LET of == SelectSeq(rows, LAMBDA t : t.transaction_type = type)
    IN  SumSeq([k \in DOMAIN of |-> of[k].amount])

(***************************************************************************)
(* C1: a request for a protected route whose session carries no userId is  *)
(* answered 401 with a JSON {error} body; it issues no store query, reads  *)
(* no row and the step that answers it changes no table.                   *)
(***************************************************************************)
C1_Rejected ==
    \A i \in Slots :
        (inflight[i].route \in Protected /\ inflight[i].userId = NoUser) =>
            /\ inflight[i].pc = "done"
            /\ inflight[i].status = 401
            /\ inflight[i].body.kind = "error"
            /\ inflight[i].nq = 0
            /\ inflight[i].owners = {}

C1_RejectedStep ==
    \A i \in Slots, s \in Sessions :
        (ProtectedStart(i, s) /\ sessionStore[s] = NoUser) =>
            /\ inflight'[i].pc = "done"
            /\ inflight'[i].status = 401
            /\ inflight'[i].body = ErrorBody("Not authenticated")
            /\ inflight'[i].nq = 0
            /\ tables' = tables

C1_Unauthenticated401 == [](C1_Rejected) /\ [][C1_RejectedStep]_vars

C1_Witness ==
    \E i \in Slots :
        /\ inflight[i].route \in Protected /\ inflight[i].pc = "done"
        /\ inflight[i].userId = NoUser /\ inflight[i].status = 401
        /\ transactions # <<>>

(***************************************************************************)
(* C2: the users table never holds two rows with the same email, whatever  *)
(* the interleaving of the register requests.                              *)
(***************************************************************************)
C2_UniqueEmail ==
    \A a, b \in DOMAIN users : a # b => users[a].email # users[b].email

(***************************************************************************)
(* C3: no cross-user access.  A protected request works with the userId    *)
(* its session held at the gate; every row its statement selects, counts   *)
(* or returns is owned by that user; a created row is owned by that user;  *)
(* an existing row changes only by a PUT of its owner and keeps its owner; *)
(* monthly_sales and business_metrics never change.                        *)
(***************************************************************************)
C3_OwnRowsOnly ==
    \A i \in Slots :
        inflight[i].route \in Protected =>
            /\ inflight[i].owners \subseteq {inflight[i].userId}
            /\ (inflight[i].route \in {"list", "recent"} /\ inflight[i].body.kind = "rows") =>
                  \A k \in DOMAIN inflight[i].body.data :
                      inflight[i].body.data[k].user_id = inflight[i].userId
            /\ (inflight[i].route = "metrics" /\ inflight[i].body.kind = "object"
                  /\ DOMAIN inflight[i].body.data # {}) =>
                      inflight[i].body.data.user_id = inflight[i].userId

C3_OwnRowsOnlyStep ==
    /\ \A i \in Slots, s \in Sessions :
          ProtectedStart(i, s) => inflight'[i].userId = sessionStore[s]
    /\ \A i \in Slots :
          CreateQuery(i) =>
             /\ Len(transactions') = Len(transactions) + 1
             /\ transactions'[Len(transactions')].user_id = inflight[i].userId
    /\ \A k \in DOMAIN transactions :
          /\ k \in DOMAIN transactions'
          /\ transactions'[k].user_id = transactions[k].user_id
          /\ transactions'[k] # transactions[k] =>
                \E i \in Slots : /\ UpdateQuery(i)
                                 /\ inflight[i].userId = transactions[k].user_id
    /\ monthly_sales' = monthly_sales
    /\ business_metrics' = business_metrics

C3_NoCrossUserAccess == [](C3_OwnRowsOnly) /\ [][C3_OwnRowsOnlyStep]_vars

C3_Witness ==
    \E i \in Slots :
        /\ Done(i, "list") /\ inflight[i].status = 200
        /\ Len(inflight[i].body.data) > 0
        /\ \E k \in DOMAIN transactions :
              transactions[k].user_id # inflight[i].userId

(***************************************************************************)
(* C4: a login that succeeds leaves in the session the user_id of a user   *)
(* with the supplied email and password; a session's userId changes only   *)
(* by such a login, by a logout on that session or by its expiry; a logout *)
(* leaves the session without userId; and a protected request is answered  *)
(* 401 exactly when its session holds no userId.                           *)
(***************************************************************************)
C4_SessionStep ==
    /\ \A i \in Slots :
          (LoginCompare(i) /\ inflight'[i].status = 200) =>
              \E k \in DOMAIN users :
                  /\ users[k].email = inflight[i].arg.email
                  /\ users[k].password_hash = bcryptHash(inflight[i].arg.password)
                  /\ sessionStore'[inflight[i].sid] = users[k].user_id
                  /\ users[k].user_id # NoUser
    /\ \A s \in Sessions :
          sessionStore'[s] # sessionStore[s] =>
              \/ \E i \in Slots : Logout(i, s)
              \/ Expire(s)
              \/ \E i \in Slots : /\ LoginCompare(i) /\ inflight[i].sid = s
                                  /\ inflight'[i].status = 200
    /\ \A i \in Slots, s \in Sessions :
          Logout(i, s) => sessionStore'[s] = NoUser
    /\ \A i \in Slots, s \in Sessions :
          ProtectedStart(i, s) =>
              (inflight'[i].status = 401 <=> sessionStore[s] = NoUser)

C4_LoginEstablishesSession == [][C4_SessionStep]_vars

\* one session logged in and served, the other answered 401
C4_Witness ==
    \E i, j \in Slots :
        /\ inflight[i].route \in Protected /\ inflight[i].pc = "done"
        /\ inflight[i].status = 200
        /\ sessionStore[inflight[i].sid] = inflight[i].userId
        /\ inflight[j].route \in Protected /\ inflight[j].pc = "done"
        /\ inflight[j].status = 401
        /\ inflight[j].sid # inflight[i].sid
        /\ sessionStore[inflight[j].sid] = NoUser

(***************************************************************************)
(* C5: a login with an unknown email and a login with a registered email   *)
(* and a wrong password get the same status, 401, and the same JSON body,  *)
(* and both leave every session's userId as it was.                        *)
(***************************************************************************)
C5_SameAnswer ==
    \A i, j \in Slots :
        (/\ Done(i, "login") /\ inflight[i].exit = "no-such-user"
         /\ Done(j, "login") /\ inflight[j].exit = "bad-password") =>
            /\ inflight[i].status = 401
            /\ inflight[j].status = 401
            /\ inflight[i].body = inflight[j].body
            /\ inflight[i].body.kind = "error"

C5_SameAnswerStep ==
    \A i \in Slots :
        /\ (LoginSelect(i) /\ \A k \in DOMAIN users :
                                 users[k].email # inflight[i].arg.email) =>
              /\ inflight'[i].pc = "done" /\ inflight'[i].exit = "no-such-user"
              /\ inflight'[i].status = 401
              /\ sessionStore' = sessionStore
        /\ (LoginCompare(i)
              /\ inflight[i].rows[1].password_hash # bcryptHash(inflight[i].arg.password)) =>
              /\ inflight'[i].pc = "done" /\ inflight'[i].exit = "bad-password"
              /\ inflight'[i].status = 401
              /\ sessionStore' = sessionStore

C5_NoAccountLeak == [](C5_SameAnswer) /\ [][C5_SameAnswerStep]_vars

C5_Witness ==
    \E i, j \in Slots :
        /\ Done(i, "login") /\ inflight[i].exit = "no-such-user"
        /\ Done(j, "login") /\ inflight[j].exit = "bad-password"
        /\ sessionStore[inflight[i].sid] # NoUser

(***************************************************************************)
(* C6: totals for a caller with no transaction inside the window answers   *)
(* 200 with {total_sales: 0, total_expenses: 0, net_profit: 0}.            *)
(***************************************************************************)
C6_ZeroTotalsStep ==
    \A i \in Slots :
        (TotalsQuery(i) /\ \A k \in DOMAIN transactions :
                              ~ (/\ transactions[k].user_id = inflight[i].userId
                                 /\ transactions[k].transaction_date >= Today - inflight[i].arg)) =>
            /\ inflight'[i].status = 200
            /\ inflight'[i].body = ObjectBody(ZeroTotals)

C6_EmptyWindowIsZero == [][C6_ZeroTotalsStep]_vars

(***************************************************************************)
(* C7: for a caller who has created transactions, all of them inside the   *)
(* window, totals answers total_sales = the sum of the amounts of the      *)
(* caller's Income rows, total_expenses = the sum of the amounts of the    *)
(* caller's Expense rows and net_profit = total_sales - total_expenses,    *)
(* whatever the sign of the amounts.                                       *)
(***************************************************************************)
C7_TotalsStep ==
    \A i \in Slots :
        TotalsQuery(i) =>
            LET mine == RowsOf(inflight[i].userId)
                sales == AmountOf(mine, "Income")
                expenses == AmountOf(mine, "Expense")
            IN  (/\ mine # <<>>
                 /\ \A k \in DOMAIN mine :
                       mine[k].transaction_date >= Today - inflight[i].arg) =>
                    /\ inflight'[i].status = 200
                    /\ inflight'[i].body =
                          ObjectBody([total_sales |-> Some(sales),
                                      total_expenses |-> Some(expenses),
                                      net_profit |-> Some(sales - expenses)])

C8_DeleteStep ==
    \A i \in Slots, s \in Sessions, id \in TxIds :
        (DeleteRequest(i, s, id) /\ sessionStore[s] # NoUser) =>
            IF \E k \in DOMAIN transactions :
                  /\ transactions[k].transaction_id = id
                  /\ transactions[k].user_id = sessionStore[s]
            THEN /\ inflight'[i].status = 200
                 /\ inflight'[i].body = SuccessBody
                 /\ transactions' = SelectSeq(transactions,
                                              LAMBDA t : t.transaction_id # id)
            ELSE /\ inflight'[i].status = 404
                 /\ inflight'[i].body.kind = "error"
                 /\ transactions' = transactions

C8_DeleteOwnedOnly == [][C8_DeleteStep]_vars

(***************************************************************************)
(* C9: PUT /api/transactions/:id by a logged-in caller: with no row of     *)
(* that id owned by the caller the answer is 404 and no row changes; else  *)
(* that row gets the six fields of the request and keeps transaction_id    *)
(* and user_id, every other row is unchanged and the answer is success.    *)
(***************************************************************************)
C9_UpdateStep ==
    \A i \in Slots :
        UpdateQuery(i) =>
            LET r == inflight[i]
                b == r.arg.body
                hit == {k \in DOMAIN transactions :
                           /\ transactions[k].transaction_id = r.arg.id
                           /\ transactions[k].user_id = r.userId}
            IN  /\ r.userId # NoUser
                /\ users' = users
                /\ monthly_sales' = monthly_sales
                /\ business_metrics' = business_metrics
                /\ IF hit = {}
                   THEN /\ inflight'[i].status = 404
                        /\ transactions' = transactions
                   ELSE /\ inflight'[i].status = 200
                        /\ inflight'[i].body = SuccessBody
                        /\ Cardinality(hit) = 1
                        /\ DOMAIN transactions' = DOMAIN transactions
                        /\ \A k \in DOMAIN transactions :
                              IF k \in hit
                              THEN transactions'[k] =
                                      [transaction_id |-> transactions[k].transaction_id,
                                       user_id |-> transactions[k].user_id,
                                       transaction_date |-> b.transaction_date,
                                       description |-> b.description,
                                       amount |-> b.amount,
                                       transaction_type |-> b.transaction_type,
                                       category |-> b.category,
                                       notes |-> b.notes]
                              ELSE transactions'[k] = transactions[k]

C9_UpdateFrame == [][C9_UpdateStep]_vars

C9_Witness ==
    \E i \in Slots :
        /\ Done(i, "update") /\ inflight[i].status = 200
        /\ \E k \in DOMAIN transactions :
              transactions[k].user_id # inflight[i].userId

(***************************************************************************)
(* C10: a logout answers 200 {success: true} whether or not the session    *)
(* holds a userId, leaves the session without userId, leaves the other     *)
(* sessions alone and changes no row of any table.                         *)
(***************************************************************************)
C10_LogoutStep ==
    \A i \in Slots, s \in Sessions :
        Logout(i, s) =>
            /\ inflight'[i].status = 200
            /\ inflight'[i].body = SuccessBody
            /\ sessionStore'[s] = NoUser
            /\ \A t \in Sessions \ {s} : sessionStore'[t] = sessionStore[t]
            /\ tables' = tables

C10_LogoutIdempotent == [][C10_LogoutStep]_vars

\* two logouts in a row on one session: the first found a userId, the
\* second none
C10_Witness ==
    \E i, j \in Slots :
        /\ Done(i, "logout") /\ inflight[i].status = 200
        /\ inflight[i].userId # NoUser
        /\ Done(j, "logout") /\ inflight[j].status = 200
        /\ inflight[j].userId = NoUser
        /\ inflight[j].sid = inflight[i].sid
        /\ sessionStore[inflight[i].sid] = NoUser
        /\ \E t \in Sessions : sessionStore[t] # NoUser

====
